---- MODULE Spec2Model ----
(***************************************************************************)
(* Model of the LightX proxy (server.js): the handler of                   *)
(* POST /lightx/run-tool, one instance per incoming request.  An async     *)
(* handler runs without interruption from one await to the next, so there  *)
(* is one action per await point: the action receives the awaited reply,   *)
(* runs the code up to the next await (issuing that call) or up to the     *)
(* response.  The code between two awaits is a function of the handler's   *)
(* frame (its position, request body, local variables, the calls it has    *)
(* issued and the responses it has sent) and of the reply it resumes with. *)
(*                                                                         *)
(* JavaScript optional values (undefined / absent JSON field) are modelled *)
(* as sequences of length at most one: None is undefined, Some(x) is x.    *)
(***************************************************************************)
EXTENDS Integers, Sequences, FiniteSets, TLC

\* ------------------------------------------------------------------ bounds
MaxRetriesAllowed == 1     \* largest maxRetriesAllowed a tool reply carries

\* --------------------------------------------------------- program constants
DefaultRetries == 5        \* toolResp.body?.maxRetriesAllowed ?? 5
SleepMs == 3000            \* await sleep(3000)
UploadOk == 2000           \* uploadInit.statusCode !== 2000

\* Two requests handled concurrently, each by its own run of the handler.
Requests == {1, 2}

None == <<>>
Some(x) == <<x>>
Val(o) == o[1]

\* The text of an optional string, as a URL or a template renders it.
Text(o) == IF o = None THEN "undefined" ELSE Val(o)

\* JavaScript truthiness of an optional string: undefined and "" are falsy.
Truthy(o) == o # None /\ Val(o) # ""

VARIABLES
    apiKey,     \* LIGHTX_API_KEY, read once at start-up from the environment
    body,       \* body[r]: req.body of request r
    pc,         \* pc[r]: the await the handler of request r is suspended at
    local,      \* local[s]: the handler's local variables held in scope s
    trace,      \* trace[r]: upstream calls and delays started for request r
    resp,       \* resp[r]: the responses sent for request r
    last,       \* last[r]: the reply the handler of r last resumed with
    solo        \* solo[r]: request r as it runs alone on the same replies

vars == <<apiKey, body, pc, local, trace, resp, last, solo>>

\* ------------------------------------------------------------ value domains
ToolNames == {"text2image", "cartoon"}
BodyTools == {None, Some("")} \cup {Some(t) : t \in ToolNames}
BodyUrls == {None, Some(""), Some("src")}
BodyParams == {[imageUrl |-> None], [imageUrl |-> Some("own")]}
Bodies == [imageUrl : BodyUrls, tool : BodyTools, params : BodyParams]
NoBody == [imageUrl |-> None, tool |-> None, params |-> [imageUrl |-> None]]

\* A reply to an upstream call: threw is a network error thrown by axios,
\* http the status code, data the parsed payload (or the headers of HEAD).
Threw == [threw |-> TRUE, http |-> 0, data |-> None]
NotFound(d) == [threw |-> FALSE, http |-> 404, data |-> Some(d)]
Ok(d) == [threw |-> FALSE, http |-> 200, data |-> Some(d)]

HeadReplies == {Threw, NotFound([contentLength |-> Some("9")])} \cup
    {Ok([contentLength |-> cl]) : cl \in {None, Some("1024")}}
UploadBodies == {None} \cup
    {Some([uploadImage |-> u, imageUrl |-> f]) :
        u \in {None, Some("put")}, f \in {None, Some("final")}}
UploadReplies == {Threw, NotFound([statusCode |-> 4040, body |-> None])} \cup
    {Ok([statusCode |-> 5000, body |-> None])} \cup
    {Ok([statusCode |-> UploadOk, body |-> b]) : b \in UploadBodies}
FileReplies == {Threw, NotFound([bytes |-> "html"]), Ok([bytes |-> "img"])}
PutReplies == {Threw, NotFound([etag |-> ""]), Ok([etag |-> "e"])}
RetryValues == {None} \cup {Some(n) : n \in 0..MaxRetriesAllowed}
ToolBodies == {None} \cup
    {Some([orderId |-> o, maxRetriesAllowed |-> m]) :
        o \in {None, Some("ord")}, m \in RetryValues}
ToolReplies == {Threw, NotFound([body |-> None])} \cup {Ok([body |-> b]) : b \in ToolBodies}
\* The reply of /text2image is passed on as it is: with or without an order.
Text2ImageReplies == {Threw, NotFound([body |-> None]), Ok([body |-> None]),
    Ok([body |-> Some([orderId |-> Some("ord"), maxRetriesAllowed |-> None])])}
StatusBodies == {None} \cup
    {Some([status |-> Some(s), output |-> None]) : s \in {"init", "failed"}} \cup
    {Some([status |-> Some("active"), output |-> o]) : o \in {None, Some("out")}}
StatusReplies == {Threw, NotFound([body |-> None])} \cup {Ok([body |-> b]) : b \in StatusBodies}

\* ------------------------------------------------------------------ helpers
\* (a status test that forgets the upper limit)
Is2xxNoUpper(s) == s >= 200

\* res.status < 200 || res.status >= 300 is the failure test of every call.
Is2xx(s) == s >= 200 /\ s < 300

\* lightxPost returns res.data when the call did not throw and was 2xx,
\* and throws otherwise.
LightxReturns(reply) == ~reply.threw /\ Is2xx(reply.http)

\* Optional chaining x.body?.f on a returned payload.
BodyField(d, f) == IF d.body = None THEN None ELSE Val(d.body)[f]

\* An entry of trace: an upstream call, or a delay of the poll loop.
Call(op, target, imageUrl, orderId) ==
    [op |-> op, target |-> target, imageUrl |-> imageUrl,
     orderId |-> orderId, ms |-> 0]
Delay(ms) ==
    [op |-> "sleep", target |-> "timer", imageUrl |-> None,
     orderId |-> None, ms |-> ms]

\* { imageUrl: finalImageUrl, ...params }: a key of params overrides.
ToolBody(finalImageUrl, params) ==
    IF params.imageUrl # None THEN params.imageUrl ELSE finalImageUrl

\* A response; a field that is undefined is left out of the JSON.
Response(http, success) ==
    [http |-> http, success |-> success, error |-> None, tool |-> None,
     status |-> None, raw |-> None, output |-> None, synchronous |-> None]

\* (an error response that leaves the message out)
ErrorResponseNoMessage(code, msg) == Response(code, FALSE)

\* res.status(code).json({ success: false, error })
ErrorResponse(code, msg) == [Response(code, FALSE) EXCEPT !.error = Some(msg)]

\* (a catch that forgets .status(500))
CatchResponseNoStatus(msg) == ErrorResponse(200, msg)

\* catch (err): 500 with err.message || "Unknown error".
CatchResponse(msg) == ErrorResponse(500, IF msg = "" THEN "Unknown error" ELSE msg)

\* ---------------------------------------------------------------- the frame
NoLocals == [uploadUrl |-> None, finalImageUrl |-> None, toolResp |-> None,
             orderId |-> None, retries |-> 0, i |-> 0,
             statusResp |-> None, status |-> None]

NewFrame == [pc |-> "idle", body |-> NoBody, loc |-> NoLocals,
             trace |-> <<>>, resp |-> <<>>, last |-> None]

\* The awaited call of the handler returns (or throws) with a reply.
Got(f, reply) == [f EXCEPT !.last = Some([at |-> f.pc, reply |-> reply])]

\* The handler sends a response and returns.
Send(f, response) == [f EXCEPT !.resp = Append(@, response), !.pc = "done"]

\* The handler issues an upstream call (or starts a delay) and suspends at
\* its await.
Issue(f, call, at) == [f EXCEPT !.trace = Append(@, call), !.pc = at]

\* (a catch that logs the error and sends nothing)
ThrowLogOnly(f, msg) == [f EXCEPT !.pc = "done"]

\* A throw inside the try block: the catch sends the 500 response.
Throw(f, msg) == Send(f, CatchResponse(msg))

\* An upstream call failed: axios threw, or the status was not 2xx.
Failed(reply) == reply.threw \/ ~Is2xx(reply.http)

\* The message of the error a failed call raises.
FailureMessage(reply, msg) == IF reply.threw THEN "network error" ELSE msg

\* -------------------------------------------- the handler, await to await
\* (a validation that looks for the image before it looks at the tool)
OnRequestImageFirst(f, b, key) ==
    LET g == [f EXCEPT !.body = b]
    IN  IF ~Truthy(key)
          THEN Send(g, ErrorResponse(500, "LIGHTX_API_KEY is not set"))
        ELSE IF ~Truthy(b.imageUrl)
          THEN Send(g, ErrorResponse(400, "imageUrl is required for this tool"))
        ELSE IF ~Truthy(b.tool)
          THEN Send(g, ErrorResponse(400, "tool is required"))
        ELSE IF b.tool = Some("text2image")
          THEN Issue(g, Call("POST", "/text2image", b.params.imageUrl, None),
                     "text2image")
        ELSE Issue(g, Call("HEAD", Text(b.imageUrl), None, None), "head")

\* Destructuring of req.body, validation and the first upstream call.
OnRequest(f, b, key) ==
    LET g == [f EXCEPT !.body = b]
    IN  IF ~Truthy(key)
          THEN Send(g, ErrorResponse(500, "LIGHTX_API_KEY is not set"))
        ELSE IF ~Truthy(b.tool)
          THEN Send(g, ErrorResponse(400, "tool is required"))
        ELSE IF b.tool = Some("text2image")
          THEN Issue(g, Call("POST", "/text2image", b.params.imageUrl, None),
                     "text2image")
        ELSE IF ~Truthy(b.imageUrl)
          THEN Send(g, ErrorResponse(400, "imageUrl is required for this tool"))
        ELSE Issue(g, Call("HEAD", Text(b.imageUrl), None, None), "head")

\* (a text2image that goes on to poll the order its reply names)
OnText2ImagePolling(f, reply) ==
    IF ~LightxReturns(reply)
      THEN Throw(f, FailureMessage(reply, "LightX /text2image failed"))
    ELSE IF Truthy(BodyField(Val(reply.data), "orderId"))
      THEN Issue([f EXCEPT !.loc.orderId = BodyField(Val(reply.data), "orderId"),
                           !.loc.retries = DefaultRetries],
                 Delay(SleepMs), "sleep")
      ELSE Send(f, [Response(200, TRUE) EXCEPT
                       !.tool = f.body.tool, !.raw = reply.data])

\* The reply of POST /text2image.
OnText2Image(f, reply) ==
    IF ~LightxReturns(reply)
      THEN Throw(f, FailureMessage(reply, "LightX /text2image failed"))
      ELSE Send(f, [Response(200, TRUE) EXCEPT
                       !.tool = f.body.tool, !.raw = reply.data])

\* 1) The reply of HEAD imageUrl; 2) ask LightX for an upload URL.
OnHead(f, reply) ==
    IF Failed(reply)
      THEN Throw(f, FailureMessage(reply, "Could not read image headers"))
    ELSE IF ~Truthy(Val(reply.data).contentLength)
      THEN Throw(f, "Bubble image has no Content-Length header")
    ELSE Issue(f, Call("POST", "/uploadImageUrl", None, None), "upload")

\* The reply of POST /uploadImageUrl; 3) download the image.
OnUpload(f, reply) ==
    IF ~LightxReturns(reply)
      THEN Throw(f, FailureMessage(reply, "LightX /uploadImageUrl failed"))
    ELSE IF Val(reply.data).statusCode # UploadOk
      THEN Throw(f, "uploadImageUrl statusCode != 2000")
    ELSE LET g == [f EXCEPT
                     !.loc.uploadUrl = BodyField(Val(reply.data), "uploadImage"),
                     !.loc.finalImageUrl = BodyField(Val(reply.data), "imageUrl")]
         IN  IF ~Truthy(g.loc.uploadUrl) \/ ~Truthy(g.loc.finalImageUrl)
               THEN Throw(g, "Missing uploadImage or imageUrl")
               ELSE Issue(g, Call("GET", Text(g.body.imageUrl), None, None), "get")

\* (a download that is tried again when it fails)
OnGetRetry(f, reply) ==
    IF Failed(reply)
      THEN Issue(f, Call("GET", Text(f.body.imageUrl), None, None), "get")
      ELSE Issue(f, Call("PUT", Text(f.loc.uploadUrl), None, None), "put")

\* The reply of GET imageUrl; 4) PUT the bytes to the upload URL.
OnGet(f, reply) ==
    IF Failed(reply)
      THEN Throw(f, FailureMessage(reply, "Failed to GET Bubble image"))
      ELSE Issue(f, Call("PUT", Text(f.loc.uploadUrl), None, None), "put")

\* The reply of the PUT; 5) call the chosen LightX tool.
OnPut(f, reply) ==
    IF Failed(reply)
      THEN Throw(f, FailureMessage(reply, "S3 upload failed"))
      ELSE Issue(f, Call("POST", "/tool",
                         ToolBody(f.loc.finalImageUrl, f.body.params), None),
                 "tool")

\* After the poll loop: the response of a polled job.
AfterLoop(f) ==
    IF f.loc.status # Some("active")
      THEN Send(f, [Response(200, FALSE) EXCEPT
                       !.tool = f.body.tool, !.status = f.loc.status,
                       !.raw = f.loc.statusResp])
      ELSE Send(f, [Response(200, TRUE) EXCEPT
                       !.tool = f.body.tool, !.status = f.loc.status,
                       !.output = BodyField(Val(f.loc.statusResp), "output")])

\* (a loop condition that gives up one round early)
LoopConditionEarly(i, retries) == i + 1 < retries

\* (a loop condition that is off by one)
LoopConditionInclusive(i, retries) == i <= retries

\* The loop condition i < retries.
LoopCondition(i, retries) == i < retries

\* The head of the poll loop: another round starts with the delay.
LoopTest(f) ==
    IF LoopCondition(f.loc.i, f.loc.retries)
      THEN Issue(f, Delay(SleepMs), "sleep")
      ELSE AfterLoop(f)

\* toolResp.body?.maxRetriesAllowed ?? 5
Retries(m) == IF m = None THEN DefaultRetries ELSE Val(m)

\* (a tool call whose reply is polled whether or not it names an order)
OnToolAlwaysPolls(f, reply) ==
    IF ~LightxReturns(reply)
      THEN Throw(f, FailureMessage(reply, "LightX /tool failed"))
    ELSE LET d == Val(reply.data)
             g == [f EXCEPT
                     !.loc.toolResp = reply.data,
                     !.loc.orderId = BodyField(d, "orderId"),
                     !.loc.retries = Retries(BodyField(d, "maxRetriesAllowed"))]
         IN  LoopTest([g EXCEPT !.loc.statusResp = None,
                                !.loc.status = None, !.loc.i = 0])

\* The reply of the tool call; 6) enter the poll loop.
OnTool(f, reply) ==
    IF ~LightxReturns(reply)
      THEN Throw(f, FailureMessage(reply, "LightX /tool failed"))
    ELSE LET d == Val(reply.data)
             g == [f EXCEPT
                     !.loc.toolResp = reply.data,
                     !.loc.orderId = BodyField(d, "orderId"),
                     !.loc.retries = Retries(BodyField(d, "maxRetriesAllowed"))]
         IN  IF ~Truthy(g.loc.orderId)
               THEN Send(g, [Response(200, TRUE) EXCEPT
                                !.tool = g.body.tool, !.synchronous = Some(TRUE),
                                !.raw = g.loc.toolResp])
               ELSE LoopTest([g EXCEPT !.loc.statusResp = None,
                                       !.loc.status = None, !.loc.i = 0])

\* The delay is over: POST /order-status.
OnSleep(f) ==
    Issue(f, Call("POST", "/order-status", None, f.loc.orderId), "poll")

\* (a break that forgets the failed status)
TerminalActiveOnly(status) == status = Some("active")

\* The status that ends the poll loop.
Terminal(status) == status = Some("active") \/ status = Some("failed")

\* The reply of POST /order-status: break, or the next round of the loop.
OnStatus(f, reply) ==
    IF ~LightxReturns(reply)
      THEN Throw(f, FailureMessage(reply, "LightX /order-status failed"))
    ELSE LET g == [f EXCEPT
                     !.loc.statusResp = reply.data,
                     !.loc.status = BodyField(Val(reply.data), "status")]
         IN  IF Terminal(g.loc.status)
               THEN AfterLoop(g)
               ELSE LoopTest([g EXCEPT !.loc.i = @ + 1])

\* ------------------------------------------------------------ the processes
\* (locals declared once at module level, shared by all invocations)
ScopeShared(r) == 1

\* The scope holding the handler's local variables: every invocation of the
\* handler declares its own (const / let inside the arrow function).
Scope(r) == r

\* The frame of request r: its locals are those of its scope.
Frame(r) == [pc |-> pc[r], body |-> body[r], loc |-> local[Scope(r)],
             trace |-> trace[r], resp |-> resp[r], last |-> last[r]]

\* The handler of request r ran from one await to the next, from frame
\* Frame(r) to frame f; alone, it ran from solo[r] to s.
Resume(r, f, s) ==
    /\ pc' = [pc EXCEPT ![r] = f.pc]
    /\ body' = [body EXCEPT ![r] = f.body]
    /\ local' = [local EXCEPT ![Scope(r)] = f.loc]
    /\ trace' = [trace EXCEPT ![r] = f.trace]
    /\ resp' = [resp EXCEPT ![r] = f.resp]
    /\ last' = [last EXCEPT ![r] = f.last]
    /\ solo' = [solo EXCEPT ![r] = s]
    /\ UNCHANGED apiKey

Init ==
    /\ apiKey \in {None, Some("key")}
    /\ body = [r \in Requests |-> NoBody]
    /\ pc = [r \in Requests |-> "idle"]
    /\ local = [s \in Requests |-> NoLocals]
    /\ trace = [r \in Requests |-> <<>>]
    /\ resp = [r \in Requests |-> <<>>]
    /\ last = [r \in Requests |-> None]
    /\ solo = [r \in Requests |-> NewFrame]

Arrive(r) ==
    /\ pc[r] = "idle"
    /\ \E b \in Bodies :
        Resume(r, OnRequest(Frame(r), b, apiKey), OnRequest(solo[r], b, apiKey))

Text2ImageReturns(r) ==
    /\ pc[r] = "text2image"
    /\ \E reply \in Text2ImageReplies :
        Resume(r, OnText2Image(Got(Frame(r), reply), reply),
                  OnText2Image(Got(solo[r], reply), reply))

HeadReturns(r) ==
    /\ pc[r] = "head"
    /\ \E reply \in HeadReplies :
        Resume(r, OnHead(Got(Frame(r), reply), reply),
                  OnHead(Got(solo[r], reply), reply))

UploadReturns(r) ==
    /\ pc[r] = "upload"
    /\ \E reply \in UploadReplies :
        Resume(r, OnUpload(Got(Frame(r), reply), reply),
                  OnUpload(Got(solo[r], reply), reply))

GetReturns(r) ==
    /\ pc[r] = "get"
    /\ \E reply \in FileReplies :
        Resume(r, OnGet(Got(Frame(r), reply), reply),
                  OnGet(Got(solo[r], reply), reply))

PutReturns(r) ==
    /\ pc[r] = "put"
    /\ \E reply \in PutReplies :
        Resume(r, OnPut(Got(Frame(r), reply), reply),
                  OnPut(Got(solo[r], reply), reply))

ToolReturns(r) ==
    /\ pc[r] = "tool"
    /\ \E reply \in ToolReplies :
        Resume(r, OnTool(Got(Frame(r), reply), reply),
                  OnTool(Got(solo[r], reply), reply))

SleepDone(r) ==
    /\ pc[r] = "sleep"
    /\ Resume(r, OnSleep(Frame(r)), OnSleep(solo[r]))

StatusReturns(r) ==
    /\ pc[r] = "poll"
    /\ \E reply \in StatusReplies :
        Resume(r, OnStatus(Got(Frame(r), reply), reply),
                  OnStatus(Got(solo[r], reply), reply))

\* A step of the handler of request r after its arrival.
Returns(r) ==
    \/ Text2ImageReturns(r)
    \/ HeadReturns(r)
    \/ UploadReturns(r)
    \/ GetReturns(r)
    \/ PutReturns(r)
    \/ ToolReturns(r)
    \/ SleepDone(r)
    \/ StatusReturns(r)

Next == \E r \in Requests : Arrive(r) \/ Returns(r)

Spec == Init /\ [][Next]_vars

\* Every upstream call and every delay eventually completes (returns or
\* throws), so a suspended handler is eventually resumed.
LiveSpec == Spec /\ \A r \in Requests : WF_vars(Returns(r))
\* ------------------------------------------------------------ observations
IsCall(c) == c.op # "sleep"
IsPoll(c) == c.target = "/order-status"

\* The upstream calls issued for request r, in order, delays left out.
Calls(r) == SelectSeq(trace[r], IsCall)
Polls(r) == SelectSeq(trace[r], IsPoll)

\* The step of the pipeline a call belongs to (0: none of the six).
StepOf(c) ==
    IF c.op = "HEAD" THEN 1
    ELSE IF c.target = "/uploadImageUrl" THEN 2
    ELSE IF c.op = "GET" THEN 3
    ELSE IF c.op = "PUT" THEN 4
    ELSE IF c.target = "/tool" THEN 5
    ELSE IF c.target = "/order-status" THEN 6
    ELSE 0

\* Request r has arrived, names a tool other than text2image and passed the
\* validation of its input.
Imaged(r) ==
    /\ pc[r] # "idle"
    /\ Truthy(apiKey)
    /\ Truthy(body[r].tool)
    /\ body[r].tool # Some("text2image")
    /\ Truthy(body[r].imageUrl)

\* The reply l.reply of the call awaited at l.at is a failure of that step.
StepFailed(l) ==
    \/ l.reply.threw
    \/ l.reply.http \notin 200..299
    \/ /\ l.at = "upload"
       /\ \/ Val(l.reply.data).statusCode # 2000
          \/ Val(l.reply.data).body = None
          \/ Val(Val(l.reply.data).body).uploadImage = None
          \/ Val(Val(l.reply.data).body).imageUrl = None

\* The awaits that can come right before the await at a position.
Before(at) ==
    CASE at = "upload" -> {"head"}
      [] at = "get" -> {"upload"}
      [] at = "put" -> {"get"}
      [] at = "tool" -> {"put"}
      [] at = "sleep" -> {"tool", "poll"}
      [] at = "poll" -> {"tool", "poll"}
      [] OTHER -> {}

\* The call a handler suspended at a position is waiting for.
Awaits(at, c) ==
    CASE at = "head" -> c.op = "HEAD"
      [] at = "upload" -> c.target = "/uploadImageUrl"
      [] at = "get" -> c.op = "GET"
      [] at = "put" -> c.op = "PUT"
      [] at = "tool" -> c.target = "/tool"
      [] at = "poll" -> c.target = "/order-status"
      [] at = "text2image" -> c.target = "/text2image"
      [] OTHER -> FALSE

\* The status of the reply request r last resumed with (None if it has none).
LastStatus(r) ==
    IF last[r] # None /\ Val(last[r]).at = "poll" /\ ~StepFailed(Val(last[r]))
      THEN BodyField(Val(Val(last[r]).reply.data), "status")
      ELSE None

IsTerminal(st) == st \in {Some("active"), Some("failed")}

Count(seq, op, target) ==
    Cardinality({k \in DOMAIN seq : seq[k].op = op /\ seq[k].target = target})

\* ------------------------------------------------------------------- claims
\* C1: for a request whose tool is not text2image and whose input is valid,
\* the k-th upstream call is step k of the pipeline (HEAD, /uploadImageUrl,
\* GET, PUT, /<tool>, then /order-status for every later call), so no step
\* is skipped or out of order, and a step is only ever in flight (or the
\* poll delay running) when the reply of the step before it was a success.
C1_PipelineOrder ==
    \A r \in Requests : Imaged(r) =>
        /\ Calls(r) # <<>>
        /\ \A k \in DOMAIN Calls(r) :
               StepOf(Calls(r)[k]) = (IF k < 6 THEN k ELSE 6)
        /\ pc[r] \in {"upload", "get", "put", "tool", "sleep", "poll"} =>
               /\ last[r] # None
               /\ Val(last[r]).at \in Before(pc[r])
               /\ ~StepFailed(Val(last[r]))

\* A request went through all six steps, polled twice and succeeded.
C1_Witness ==
    \E r \in Requests :
        /\ Imaged(r) /\ pc[r] = "done"
        /\ Len(Calls(r)) = 7
        /\ resp[r][1].success

\* C2: when the reply of an upstream step is a failure, the request has
\* ended with one response, HTTP 500 with success=false and an error
\* message, and the failed call is the last call made for the request.
C2_FailureEnds ==
    \A r \in Requests :
        (last[r] # None /\ StepFailed(Val(last[r]))) =>
            /\ pc[r] = "done"
            /\ Len(resp[r]) = 1
            /\ resp[r][1].http = 500
            /\ resp[r][1].success = FALSE
            /\ resp[r][1].error # None
            /\ Val(resp[r][1].error) # ""
            /\ Awaits(Val(last[r]).at, trace[r][Len(trace[r])])

\* The second poll of a request failed and the request ended with the 500.
C2_Witness ==
    \E r \in Requests :
        /\ last[r] # None /\ StepFailed(Val(last[r]))
        /\ Val(last[r]).at = "poll"
        /\ Len(Polls(r)) = 2
        /\ resp[r] # <<>> /\ resp[r][1].http = 500

\* The tool call returned an order id and no poll failed: request r ends on
\* the polled path.
PolledOut(r) ==
    /\ pc[r] = "done"
    /\ last[r] # None
    /\ Val(last[r]).at \in {"tool", "poll"}
    /\ ~StepFailed(Val(last[r]))
    /\ Truthy(BodyField(Val(local[r].toolResp), "orderId"))

\* C3 as stated: every response that is not a success has success=false and
\* an error message.
C3_Original ==
    \A r \in Requests : \A k \in DOMAIN resp[r] :
        ~resp[r][k].success => resp[r][k].error # None

\* C3 as amended: a request that does not end in success gets JSON with
\* success=false; it carries an error message (with status 400 or 500 and
\* nothing else) when validation or an upstream step failed, and no error
\* message (status 200, with the tool) when a polled job did not end active.
C3_FailureShapes ==
    \A r \in Requests :
        (pc[r] = "done" /\ ~resp[r][1].success) =>
            LET x == resp[r][1]
            IN  IF PolledOut(r)
                  THEN /\ x.error = None
                       /\ x.http = 200
                       /\ x.tool = body[r].tool
                       /\ x.output = None /\ x.synchronous = None
                  ELSE /\ x.error # None
                       /\ x.http \in {400, 500}
                       /\ x.tool = None /\ x.status = None /\ x.raw = None
                       /\ x.output = None /\ x.synchronous = None

\* One request ended on a failed job and another on a failed upstream step.
C3_Witness ==
    \E r, q \in Requests :
        /\ PolledOut(r) /\ ~resp[r][1].success
        /\ Val(last[r]).at = "poll"
        /\ pc[q] = "done" /\ ~resp[q][1].success /\ ~PolledOut(q)
        /\ last[q] # None

\* C4: within one request HEAD, POST /uploadImageUrl, GET, PUT and the tool
\* call (POST /<tool> or POST /text2image) are each issued at most once.
C4_NoRetry ==
    \A r \in Requests :
        /\ Count(trace[r], "HEAD", "src") <= 1
        /\ Count(trace[r], "POST", "/uploadImageUrl") <= 1
        /\ Count(trace[r], "GET", "src") <= 1
        /\ Count(trace[r], "PUT", "put") <= 1
        /\ Count(trace[r], "POST", "/tool") + Count(trace[r], "POST", "/text2image") <= 1
        /\ \A k \in DOMAIN trace[r] :
               trace[r][k].op \in {"HEAD", "GET", "PUT"} =>
                   trace[r][k].target \in {"src", "put"}

\* A request polled more than once, after one call of each other step, and
\* another request ended on a failed download.
C4_Witness ==
    \E r, q \in Requests :
        /\ Len(Polls(r)) > 1
        /\ Count(trace[r], "POST", "/tool") = 1
        /\ pc[q] = "done" /\ last[q] # None
        /\ Val(last[q]).at = "get" /\ StepFailed(Val(last[q]))

\* The poll budget the tool reply of request r grants.
Budget(r) ==
    LET m == BodyField(Val(local[r].toolResp), "maxRetriesAllowed")
    IN  IF m = None THEN 5 ELSE Val(m)

\* C5: the number of /order-status calls of a request never exceeds the
\* maxRetriesAllowed of its tool reply (5 when it carries none), every
\* /order-status call comes right after a 3-second delay of its own, and
\* while a delay runs no check has been made after it.
C5_BoundedPolling ==
    \A r \in Requests :
        /\ Polls(r) # <<>> =>
               /\ local[r].toolResp # None
               /\ Len(Polls(r)) <= Budget(r)
        /\ \A k \in DOMAIN trace[r] :
               IsPoll(trace[r][k]) =>
                   /\ k > 1
                   /\ trace[r][k - 1].op = "sleep"
                   /\ trace[r][k - 1].ms = 3000
        /\ pc[r] = "sleep" => trace[r][Len(trace[r])].op = "sleep"

\* A request used its whole default budget of five polls, another one the
\* budget of one its tool reply granted.
C5_Witness ==
    \E r, q \in Requests :
        /\ pc[r] = "done" /\ Len(Polls(r)) = 5
        /\ BodyField(Val(local[r].toolResp), "maxRetriesAllowed") = None
        /\ pc[q] = "done" /\ Len(Polls(q)) = 1
        /\ BodyField(Val(local[q].toolResp), "maxRetriesAllowed") = Some(1)
        /\ LastStatus(q) = Some("init")
\* C6 as stated: on the polled path with no failed poll, the response comes
\* after a terminal status and reports active or failed.
C6_Original ==
    \A r \in Requests :
        PolledOut(r) => IsTerminal(resp[r][1].status)

\* C6 as amended: on the polled path with no failed poll, the response comes
\* after a reply with a terminal status, or after the poll budget
\* (maxRetriesAllowed, 5 by default) is used up; the status it reports is
\* that of the last poll: active or failed in the first case, a non-terminal
\* status (or none) in the second.
C6_TerminalOrExhausted ==
    \A r \in Requests :
        PolledOut(r) =>
            /\ resp[r][1].status = LastStatus(r)
            /\ \/ /\ IsTerminal(LastStatus(r))
                  /\ Len(Polls(r)) \in 1..Budget(r)
               \/ /\ ~IsTerminal(LastStatus(r))
                  /\ Len(Polls(r)) = Budget(r)

\* One request answered after a terminal status on its second poll, another
\* after five polls that never reported one.
C6_Witness ==
    \E r, q \in Requests :
        /\ PolledOut(r) /\ IsTerminal(LastStatus(r)) /\ Len(Polls(r)) = 2
        /\ PolledOut(q) /\ LastStatus(q) = Some("init") /\ Len(Polls(q)) = 5

\* C7: a request receives at most one response at any time, and once it has
\* arrived it eventually has exactly one and its handler has returned.
C7_OneResponse ==
    /\ [](\A r \in Requests : Len(resp[r]) <= 1)
    /\ \A r \in Requests :
           (pc[r] # "idle") ~> (pc[r] = "done" /\ Len(resp[r]) = 1)

\* A request got its one response after polling through the default budget,
\* another after a call that threw.
C7_Witness ==
    \E r, q \in Requests :
        /\ pc[r] = "done" /\ Len(resp[r]) = 1 /\ Len(Polls(r)) = 5
        /\ pc[q] = "done" /\ Len(resp[q]) = 1
        /\ last[q] # None /\ Val(last[q]).reply.threw

\* C8: with two requests interleaved in any order, the calls made for each
\* request, its responses and its position are those of the same request
\* run alone on the same body and the same replies.
C8_NonInterference ==
    \A r \in Requests :
        /\ trace[r] = solo[r].trace
        /\ resp[r] = solo[r].resp
        /\ pc[r] = solo[r].pc

\* Both requests are in their poll loops at the same time, one waiting for
\* its third reply, the other in its second delay.
C8_Witness ==
    \E r, q \in Requests :
        /\ r # q
        /\ pc[r] = "poll" /\ Len(Polls(r)) = 3
        /\ pc[q] = "sleep" /\ Len(Polls(q)) = 1
        /\ body[r] # body[q]

\* C9 as stated: a response with success=true has an output field or a raw
\* field.
C9_Original ==
    \A r \in Requests : \A k \in DOMAIN resp[r] :
        resp[r][k].success =>
            (resp[r][k].output # None \/ resp[r][k].raw # None)

\* The tool reply of request r carried an order id.
HasOrder(r) ==
    /\ local[r].toolResp # None
    /\ body[r].tool # Some("text2image")
    /\ Truthy(BodyField(Val(local[r].toolResp), "orderId"))

\* C10: on the polled path the response is a success exactly when the last
\* /order-status reply received had status active, a failed status gives
\* success=false, and once a reply with status active or failed has been
\* received the handler has returned with that poll as its last call.
C10_ActiveIffSuccess ==
    \A r \in Requests :
        HasOrder(r) =>
            /\ pc[r] = "done" =>
                   /\ resp[r][1].success <=> (LastStatus(r) = Some("active"))
                   /\ LastStatus(r) = Some("failed") => ~resp[r][1].success
            /\ IsTerminal(LastStatus(r)) =>
                   /\ pc[r] = "done"
                   /\ IsPoll(trace[r][Len(trace[r])])

\* One request ended active on its second poll, another failed on its first.
C10_Witness ==
    \E r, q \in Requests :
        /\ HasOrder(r) /\ pc[r] = "done" /\ resp[r][1].success
        /\ Len(Polls(r)) = 2
        /\ HasOrder(q) /\ pc[q] = "done" /\ LastStatus(q) = Some("failed")
        /\ Len(Polls(q)) = 1 /\ ~resp[q][1].success

\* A value of the request body is missing: absent or empty.
Missing(o) == o = None \/ o = Some("")

\* The one response of a request turned away by validation.
Rejection(code, msg) ==
    [http |-> code, success |-> FALSE, error |-> Some(msg), tool |-> None,
     status |-> None, raw |-> None, output |-> None, synchronous |-> None]

\* C11: an arrived request with the API key unset is answered 500
\* 'LIGHTX_API_KEY is not set' whatever its body; otherwise one without a
\* tool is answered 400 'tool is required'; otherwise one whose tool is not
\* text2image and that has no imageUrl is answered 400 'imageUrl is required
\* for this tool'; in the three cases no upstream call is made for it, and
\* in every other case the first upstream call has been made.
C11_ValidationPrecedence ==
    \A r \in Requests :
        pc[r] # "idle" =>
            IF Missing(apiKey)
              THEN /\ resp[r] = <<Rejection(500, "LIGHTX_API_KEY is not set")>>
                   /\ trace[r] = <<>> /\ pc[r] = "done"
            ELSE IF Missing(body[r].tool)
              THEN /\ resp[r] = <<Rejection(400, "tool is required")>>
                   /\ trace[r] = <<>> /\ pc[r] = "done"
            ELSE IF body[r].tool # Some("text2image") /\ Missing(body[r].imageUrl)
              THEN /\ resp[r] = <<Rejection(400, "imageUrl is required for this tool")>>
                   /\ trace[r] = <<>> /\ pc[r] = "done"
            ELSE trace[r] # <<>>

\* With the key set, a request without tool and without imageUrl was told
\* that the tool is required, and one with a tool but an empty imageUrl that
\* the imageUrl is required.
C11_Witness ==
    \E r, q \in Requests :
        /\ Truthy(apiKey)
        /\ pc[r] = "done" /\ body[r].tool = None /\ body[r].imageUrl = None
        /\ resp[r][1].error = Some("tool is required")
        /\ pc[q] = "done" /\ body[q].tool = Some("cartoon")
        /\ body[q].imageUrl = Some("")
        /\ resp[q][1].error = Some("imageUrl is required for this tool")
        /\ trace[r] = <<>> /\ trace[q] = <<>>

\* Request r has arrived with the API key set and asks for text2image.
TextToImage(r) ==
    /\ pc[r] # "idle"
    /\ ~Missing(apiKey)
    /\ body[r].tool = Some("text2image")

\* C12: for tool text2image the calls of the request are, at every moment,
\* the single POST /text2image carrying the params: no HEAD, upload, GET,
\* PUT, delay or /order-status, with or without an imageUrl in the body and
\* an orderId in the reply; and a 2xx reply is answered with
\* {success:true, tool, raw} where raw is the reply.
C12_TextToImageBypass ==
    \A r \in Requests :
        TextToImage(r) =>
            /\ Len(trace[r]) = 1
            /\ trace[r][1].op = "POST"
            /\ trace[r][1].target = "/text2image"
            /\ trace[r][1].imageUrl = body[r].params.imageUrl
            /\ (pc[r] = "done" /\ ~StepFailed(Val(last[r]))) =>
                   resp[r] = <<[http |-> 200, success |-> TRUE, error |-> None,
                                tool |-> Some("text2image"), status |-> None,
                                raw |-> Val(last[r]).reply.data,
                                output |-> None, synchronous |-> None]>>

\* A text2image request that came with an imageUrl was answered with a
\* reply naming an order, another without imageUrl with a reply naming none.
C12_Witness ==
    \E r, q \in Requests :
        /\ TextToImage(r) /\ pc[r] = "done" /\ resp[r][1].success
        /\ body[r].imageUrl = Some("src")
        /\ BodyField(Val(Val(last[r]).reply.data), "orderId") = Some("ord")
        /\ TextToImage(q) /\ pc[q] = "done" /\ resp[q][1].success
        /\ body[q].imageUrl = None
        /\ BodyField(Val(Val(last[q]).reply.data), "orderId") = None

\* The tool call of request r returned with a reply that names no order.
Synchronous(r) ==
    /\ Imaged(r)
    /\ last[r] # None
    /\ Val(last[r]).at = "tool"
    /\ ~StepFailed(Val(last[r]))
    /\ Missing(BodyField(Val(Val(last[r]).reply.data), "orderId"))

\* C13: when the tool reply of a non-text2image request names no order, the
\* handler has returned with the tool call as its last call (no delay, no
\* /order-status) and the response {success:true, tool, synchronous:true,
\* raw} with raw the tool reply, whatever maxRetriesAllowed the reply has.
C13_SynchronousTool ==
    \A r \in Requests :
        Synchronous(r) =>
            /\ pc[r] = "done"
            /\ Len(trace[r]) = 5
            /\ trace[r][5].target = "/tool"
            /\ \A k \in DOMAIN trace[r] :
                   trace[r][k].op # "sleep" /\ ~IsPoll(trace[r][k])
            /\ resp[r] = <<[http |-> 200, success |-> TRUE, error |-> None,
                            tool |-> body[r].tool, status |-> None,
                            raw |-> Val(last[r]).reply.data,
                            output |-> None, synchronous |-> Some(TRUE)]>>

\* One synchronous reply carried maxRetriesAllowed 1 and no order, another
\* had no body at all.
C13_Witness ==
    \E r, q \in Requests :
        /\ Synchronous(r) /\ pc[r] = "done"
        /\ BodyField(Val(Val(last[r]).reply.data), "maxRetriesAllowed") = Some(1)
        /\ Synchronous(q) /\ pc[q] = "done"
        /\ Val(Val(last[q]).reply.data).body = None

\* C14 as stated: when a polled job does not end active, at least one poll
\* was made and the response is {success:false, tool, status, raw} with
\* status the status of the last /order-status reply and raw that reply,
\* for every maxRetriesAllowed of the tool reply, 0 included.
C14_Original ==
    \A r \in Requests :
        (PolledOut(r) /\ ~resp[r][1].success) =>
            /\ Len(Polls(r)) >= 1
            /\ Val(last[r]).at = "poll"
            /\ resp[r][1].tool = body[r].tool
            /\ resp[r][1].status = LastStatus(r)
            /\ resp[r][1].raw # None
            /\ resp[r][1].raw = Val(last[r]).reply.data

\* C15 as stated: the imageUrl of the body of every POST /<tool> call is the
\* read URL that /uploadImageUrl returned to the same request, whatever the
\* params, and the PUT went to the write URL of that reply.
C15_Original ==
    \A r \in Requests : \A k \in DOMAIN trace[r] :
        /\ trace[r][k].target = "/tool" =>
               /\ local[r].finalImageUrl # None
               /\ trace[r][k].imageUrl = local[r].finalImageUrl
        /\ trace[r][k].op = "PUT" =>
               /\ local[r].uploadUrl # None
               /\ trace[r][k].target = Val(local[r].uploadUrl)
====
